---- MODULE Spec2Model ----
(***************************************************************************)
(* gotestmd: the command (cmd/gotestmd) that writes the generated suites,  *)
(* and the generator's Suite and Test renderers.                           *)
(*                                                                         *)
(* Text is modelled as a sequence of lines, a line as a sequence of string *)
(* tokens (a name is the sequence of its characters, a path the sequence   *)
(* of its segments).  A Body is a sequence of blocks, a block a sequence   *)
(* of lines.  A *Suite is an index into the sequence suites.               *)
(***************************************************************************)
EXTENDS Integers, Sequences, FiniteSets, TLC

VARIABLES
    suites,      \* the []*generator.Suite handed to the command, as it is now
    assembled,   \* the same list as generator.Generate returned it
    bash,        \* flag --bash
    match,       \* flag --match
    linkFails,   \* whether linker.Link returns an error
    pc,          \* where RunE is
    idx,         \* the loop variable of the running range loop
    matchFound,  \* processBashSuites' local
    err,         \* what RunE returned
    rendered,    \* the suites whose String/BashString the command invoked, in order
    writes,      \* the os.WriteFile calls that succeeded, in order
    failed,      \* the os.WriteFile calls that failed, in order
    last,        \* the latest call of a render method and what it returned
    prev,        \* the call before it
    calls        \* how many render methods were called on the generator's API

vars == <<suites, assembled, bash, match, linkFails, pc, idx, matchFound, err,
          rendered, writes, failed, last, prev, calls>>

runVars == <<bash, match, linkFails, pc, idx, matchFound, err, rendered, writes, failed>>

-----------------------------------------------------------------------------
(* Bounds of the model *)

MaxSuites == 3
MaxTests == 2
MaxCmds == 2
MaxCalls == 3

-----------------------------------------------------------------------------
(* Sequences *)

RECURSIVE Concat(_)
Concat(ss) == IF ss = <<>> THEN <<>> ELSE Head(ss) \o Concat(Tail(ss))

Last(s) == s[Len(s)]

NoCall == [op |-> "none", suite |-> 0, test |-> 0, out |-> <<>>]

NoError == [kind |-> "nil", suite |-> <<>>]

-----------------------------------------------------------------------------
(* regexp: the patterns are literal characters, "." (any character) and    *)
(* "(" (which, never closed, makes Compile fail).  MatchString is          *)
(* unanchored: the pattern matches somewhere in the name.                  *)

Compiles(p) == \A k \in 1..Len(p) : p[k] # "("

MatchAt(p, s, at) ==
    /\ at + Len(p) - 1 <= Len(s)
    /\ \A k \in 1..Len(p) : p[k] = "." \/ p[k] = s[at + k - 1]

MatchString(p, s) == \E at \in 1..(Len(s) + 1) : MatchAt(p, s, at)

-----------------------------------------------------------------------------
(* path/filepath *)

Cwd == <<"/", "work">>

IsAbs(p) == p # <<>> /\ p[1] = "/"

IsNotDot(seg) == seg # "."

Clean(p) == SelectSeq(p, IsNotDot)

\* filepath.Abs: an absolute path is cleaned, a relative one joined to the
\* working directory.
Abs(p) == IF IsAbs(p) THEN Clean(p) ELSE Clean(Cwd \o p)

\* "cd "+absDir, a block of one line
CdCommand(dir) == << <<"cd ">> \o Abs(dir) >>

-----------------------------------------------------------------------------
(* Rendering helpers *)

\* A template field on a line of its own: an empty value leaves a blank line.
Field(lines) == IF lines = <<>> THEN << <<>> >> ELSE lines

IsNotBlank(line) == line # <<>>

\* spaceRegex.ReplaceAllString(strings.TrimSpace(text), "\n"): blank lines go.
NormalizeSpace(text) == SelectSeq(text, IsNotBlank)

\* One block inside r.Run(...): each of its lines in backquotes (written BQ
\* here), the lines joined by +"\n"+
RECURSIVE QuotedLines(_)
QuotedLines(block) ==
    IF block = <<>> THEN <<>>
    ELSE <<"BQ">> \o Head(block) \o <<"BQ">>
         \o (IF Len(block) > 1 THEN <<"+\"\\n\"+">> ELSE <<>>)
         \o QuotedLines(Tail(block))

\* Body.String
BodyString(b) == [k \in 1..Len(b) |-> <<"r.Run(">> \o QuotedLines(b[k]) \o <<")">>]

\* Body.BashString(withExit): the lines of the blocks, in order.
BodyBashString(b, withExit) == Concat(b)

\* fmt.Sprintf of the s.T().Cleanup(func() { ... }) wrapper around a cleanup
WrapCleanup(cleanup) ==
    IF cleanup = <<>> THEN <<>>
    ELSE << <<"s.T().Cleanup(func() {">> >> \o cleanup \o << <<"})">> >>

\* Dependencies.String, FieldsString and SetupString: a line for each dependency.
DepsString(deps) == [k \in 1..Len(deps) |-> <<"import ", deps[k]>>]

DepsFieldsString(deps) == [k \in 1..Len(deps) |-> <<deps[k], " field">>]

DepsSetupString(deps) == [k \in 1..Len(deps) |-> <<"setup ", deps[k]>>]

\* strings.Title(nameRegex.ReplaceAllString(title, "_")) of a directory segment
Title(seg) == <<"Title(", seg, ")">>

-----------------------------------------------------------------------------
(* generator.Test *)

\* new(Test)
NewTest == [Dir |-> <<>>, Name |-> <<>>, Cleanup |-> <<>>, Run |-> <<>>]

\* Test.String
TestString(t) ==
    IF Len(t.Cleanup) + Len(t.Run) = 0
    THEN << <<"func (s *Suite) Test() {}">> >>
    ELSE << <<>>,
            <<"func (s *Suite) Test">> \o t.Name \o <<"() {">>,
            <<"r := s.Runner(\"">> \o t.Dir \o <<"\")">> >>
         \o Field(WrapCleanup(BodyString(t.Cleanup)))
         \o Field(BodyString(t.Run))
         \o << <<"}">> >>

\* Test.BashString, line 98: t.Run = append(t.Run, "cd "+absDir)
TestAfterBashString(t) == [t EXCEPT !.Run = Append(t.Run, CdCommand(t.Dir))]

\* Test.BashString, what it returns: the template over the test it has changed
TestBashString(t) ==
    LET u == TestAfterBashString(t)
    IN  << <<>>, <<"test">> \o u.Name \o <<"() {">> >>
        \o Field(BodyBashString(u.Run, TRUE))
        \o (IF BodyBashString(u.Cleanup, FALSE) = <<>>
            THEN << <<"}">> >>
            ELSE BodyBashString(u.Cleanup, FALSE) \o << <<"}">> >>)

-----------------------------------------------------------------------------
(* generator.Suite.  S is the list of suites, i the suite's index in it.   *)

\* Suite.generateChildrenTesting
GenerateChildrenTesting(S, i) ==
    Concat([k \in 1..Len(S[i].Children) |->
        LET child == S[S[i].Children[k]]
        IN  << <<"s.Run(\"">> \o Title(Last(child.Dir)) \o <<"\", func() {">>,
               <<"suite.Run(s.T(), &s.">> \o child.Name \o <<"Suite)">>,
               <<"})">> >>])

\* Suite.String, lines 370-372: a suite without tests gets an empty one
SuiteAfterString(s) ==
    IF Len(s.Tests) = 0 THEN [s EXCEPT !.Tests = Append(s.Tests, NewTest)] ELSE s

\* Suite.String, what it returns
SuiteString(S, i) ==
    LET s        == S[i]
        cleanup  == WrapCleanup(BodyString(s.Cleanup))
        run      == BodyString(s.Run)
        included == GenerateChildrenTesting(S, i)
        tests    == SuiteAfterString(s).Tests
    IN  NormalizeSpace(
            << <<"// Code generated by gotestmd DO NOT EDIT.">>,
               <<"package ">> \o s.Name,
               <<"import(">> >>
            \o Field(DepsString(s.Deps))
            \o << <<")">>, <<"type Suite struct {">> >>
            \o Field(DepsFieldsString(s.Deps))
            \o << <<"}">>, <<"func (s *Suite) SetupSuite() {">> >>
            \o Field(DepsSetupString(s.DepsToSetup))
            \o (IF run # <<>> \/ cleanup # <<>>
                THEN << <<"r := s.Runner(\"">> \o s.Dir \o <<"\")">> >>
                ELSE << <<>> >>)
            \o Field(cleanup)
            \o Field(run)
            \o (IF included # <<>>
                THEN << <<"s.RunIncludedSuites()">>, <<"}">>,
                        <<"func (s *Suite) RunIncludedSuites() {">> >> \o included
                ELSE << <<>> >>)
            \o << <<"}">> >>
            \o Concat([k \in 1..Len(tests) |-> TestString(tests[k])]))

\* What one suite adds to the setup: lines 426-428
OwnSetupRunFirst(s) == s.Run \o <<CdCommand(s.Dir)>>

OwnSetup(s) == <<CdCommand(s.Dir)>> \o s.Run

\* Suite.getCompleteSetup
RECURSIVE GetCompleteSetup(_, _)
GetCompleteSetup(S, i) ==
    Concat([k \in 1..Len(S[i].Parents) |-> GetCompleteSetup(S, S[i].Parents[k])])
    \o OwnSetup(S[i])

\* How getCompleteCleanup joins the suite's cleanup and its parents': lines 433-436.
\* (cleanup := s.Cleanup shares s.Cleanup's array: append may write into its spare
\* capacity, past the length of s.Cleanup, where no slice of the model reads.)
JoinCleanupParentsFirst(own, inherited) == inherited \o own

JoinCleanup(own, inherited) == own \o inherited

\* Suite.getCompleteCleanup
RECURSIVE GetCompleteCleanup(_, _)
GetCompleteCleanup(S, i) ==
    JoinCleanup(S[i].Cleanup,
        Concat([k \in 1..Len(S[i].Parents) |-> GetCompleteCleanup(S, S[i].Parents[k])]))

\* Suite.BashString: strings.Join(..., "\n") of both lists in the template
SuiteBashString(S, i) ==
    NormalizeSpace(
        << <<"function setup() {">> >>
        \o Field(Concat(GetCompleteSetup(S, i)))
        \o << <<"}">>, <<>>, <<"function cleanup() {">> >>
        \o Field(Concat(GetCompleteCleanup(S, i)))
        \o << <<"}">>, <<"setup()">>, <<"cleanup()">> >>)

-----------------------------------------------------------------------------
(* The suites generator.Generate hands to the command *)

Letter == <<"A", "B", "C", "D", "E", "F">>

Digit == <<"1", "2", "3", "4", "5", "6", "7", "8", "9", "10", "11", "12",
           "13", "14", "15", "16", "17", "18", "19", "20">>

\* The j-th command of a body: a block of one line, or of two
Command(kind, owner, j) ==
    IF j = 2 /\ kind = "test run "
    THEN << <<kind, owner, Digit[j]>>, <<"&& done">> >>
    ELSE << <<kind, owner, Digit[j]>> >>

SuiteDir(i) == <<".", "ex", Letter[i]>>

\* The j-th test of suite i is named T<n>, numbered through the suites (the
\* second test of a suite T<n>A); the first test of a suite has no commands,
\* the j-th has j-1 of each kind.
MkTest(i, j) ==
    LET n == Digit[(i - 1) * (MaxTests + 1) + j]
    IN  [Dir     |-> SuiteDir(i),
         Name    |-> IF j = 2 THEN <<"T", n, "A">> ELSE <<"T", n>>,
         Cleanup |-> [k \in 1..(j - 1) |-> Command("test cleanup ", n, k)],
         Run     |-> [k \in 1..(j - 1) |-> Command("test run ", n, k)]]

RECURSIVE SetToSeq(_)
SetToSeq(set) ==
    IF set = {} THEN <<>>
    ELSE LET m == CHOOSE x \in set : \A y \in set : x <= y
         IN  <<m>> \o SetToSeq(set \ {m})

\* parents[i] is the list of suite i's parents, nTests[i] the number of its tests
MkSuite(i, parents, nTests, nRun, nCleanup) ==
    [Dir         |-> SuiteDir(i),
     Location    |-> <<"out", "ex", Letter[i], "suite.gen.go">>,
     Name        |-> <<Letter[i]>>,
     Cleanup     |-> [k \in 1..nCleanup |-> Command("cleanup ", Letter[i], k)],
     Run         |-> [k \in 1..nRun |-> Command("run ", Letter[i], k)],
     Tests       |-> [j \in 1..nTests[i] |-> MkTest(i, j)],
     Children    |-> SetToSeq({c \in DOMAIN parents :
                                 \E k \in 1..Len(parents[c]) : parents[c][k] = i}),
     Parents     |-> parents[i],
     Deps        |-> <<"F">>,
     DepsToSetup |-> IF parents[i] = <<>> THEN <<"F">> ELSE <<>>]

MkSuites(n, parents, nTests, nRun, nCleanup) ==
    [i \in 1..n |-> MkSuite(i, parents, nTests, nRun, nCleanup)]

\* Every suite but the first is included by the one before it
ChainParents(n) == [i \in 1..n |-> IF i = 1 THEN <<>> ELSE <<i - 1>>]

\* A suite has no parent, one earlier suite, or two earlier suites
ParentChoices(i) ==
    {<<>>} \cup {<<j>> : j \in 1..(i - 1)}
           \cup {pr \in (1..(i - 1)) \X (1..(i - 1)) : pr[1] # pr[2]}

ParentShapes(n) == {p \in [1..n -> UNION {ParentChoices(i) : i \in 1..n}] :
                       \A i \in 1..n : p[i] \in ParentChoices(i)}

Patterns == { <<>>, <<"A">>, <<"B">>, <<"T", "1">>, <<"T", "3">>, <<"T">>, <<"2">>,
              <<".">>, <<".", ".">>, <<"Z">>, <<"(">>, <<"A", "(">> }

-----------------------------------------------------------------------------
(* cmd/gotestmd: RunE, processGoSuites, processBashSuites *)

Init ==
    /\ \E n \in 0..MaxSuites : \E nTests \in [1..n -> 0..MaxTests] :
           suites = MkSuites(n, ChainParents(n), nTests, 1, 1)
    /\ assembled = suites
    /\ bash \in BOOLEAN
    /\ match \in Patterns
    /\ linkFails \in BOOLEAN
    /\ pc = "RunE"
    /\ idx = 0
    /\ matchFound = FALSE
    /\ err = NoError
    /\ rendered = <<>>
    /\ writes = <<>>
    /\ failed = <<>>
    /\ last = NoCall
    /\ prev = NoCall
    /\ calls = 0

\* line 50: --bash without --match
FlagsAccepted(b, m) == FALSE

FlagsRejected(b, m) == b /\ m = <<>>

\* lines 81-84: regexp.Compile returned an error
CompileNeverFails(m) == FALSE

CompileFails(m) == ~Compiles(m)

\* lines 101 and 121 and 142: os.WriteFile returned an error
SaveFailedIgnored(ok) == FALSE

SaveFailed(ok) == ~ok

\* line 117: suite.Tests = nil
TestsKeptAfterNameMatch(tests) == tests

TestsAfterNameMatch(tests) == <<>>

\* lines 127-133: the tests whose name matches, in their order
RECURSIVE MatchedTests(_, _)
MatchedTests(p, tests) ==
    IF tests = <<>> THEN <<>>
    ELSE (IF MatchString(p, Head(tests).Name) THEN <<Head(tests)>> ELSE <<>>)
         \o MatchedTests(p, Tail(tests))

\* line 131: matchFound = true, for every test that matches
FoundAfterTestsForgotten(found, matched) == found

FoundAfterTests(found, matched) == found \/ matched # <<>>

SaveError(name) == [kind |-> "cannot save suite", suite |-> name]

\* RunE up to the call of processGoSuites or processBashSuites
RunE ==
    /\ pc = "RunE"
    /\ IF FlagsRejected(bash, match)
       THEN pc' = "done" /\ err' = [kind |-> "flags", suite |-> <<>>]
       ELSE IF linkFails
       THEN pc' = "done" /\ err' = [kind |-> "cannot build examples", suite |-> <<>>]
       ELSE IF ~bash
       THEN pc' = "processGoSuites" /\ err' = err
       ELSE IF CompileFails(match)
       THEN pc' = "done" /\ err' = [kind |-> "pattern", suite |-> <<>>]
       ELSE pc' = "byName" /\ err' = err
    /\ idx' = 1
    /\ UNCHANGED <<suites, assembled, bash, match, linkFails, matchFound,
                   rendered, writes, failed, last, prev, calls>>

\* os.WriteFile(suite.Location, data) of suite idx, and what the loop does next
\* (the result of os.MkdirAll before it is dropped by the code)
WriteFile(data) ==
    \E ok \in BOOLEAN :
        /\ writes' = IF ok THEN Append(writes, [Location |-> suites[idx].Location,
                                                data |-> data])
                     ELSE writes
        /\ failed' = IF ok THEN failed ELSE Append(failed, idx)
        /\ IF SaveFailed(ok)
           THEN pc' = "done" /\ idx' = idx /\ err' = SaveError(suites[idx].Name)
           ELSE pc' = pc /\ idx' = idx + 1 /\ err' = err

\* processGoSuites, one iteration
GoSuite ==
    /\ pc = "processGoSuites"
    /\ idx <= Len(suites)
    /\ suites' = [suites EXCEPT ![idx] = SuiteAfterString(@)]
    /\ rendered' = Append(rendered, idx)
    /\ WriteFile(SuiteString(suites, idx))
    /\ UNCHANGED <<assembled, bash, match, linkFails, matchFound, last, prev, calls>>

\* processGoSuites, line 106
GoReturn ==
    /\ pc = "processGoSuites"
    /\ idx > Len(suites)
    /\ pc' = "done"
    /\ err' = NoError
    /\ UNCHANGED <<suites, assembled, bash, match, linkFails, idx, matchFound,
                   rendered, writes, failed, last, prev, calls>>

\* processBashSuites, first loop, one iteration
ByName ==
    /\ pc = "byName"
    /\ idx <= Len(suites)
    /\ IF ~MatchString(match, suites[idx].Name)
       THEN /\ idx' = idx + 1
            /\ UNCHANGED <<suites, matchFound, rendered, writes, failed, pc, err>>
       ELSE /\ matchFound' = TRUE
            /\ suites' = [suites EXCEPT ![idx].Tests = TestsAfterNameMatch(@)]
            /\ rendered' = Append(rendered, idx)
            /\ WriteFile(SuiteBashString(suites', idx))
    /\ UNCHANGED <<assembled, bash, match, linkFails, last, prev, calls>>

\* processBashSuites, the first loop ends
ByNameDone ==
    /\ pc = "byName"
    /\ idx > Len(suites)
    /\ pc' = "byTests"
    /\ idx' = 1
    /\ UNCHANGED <<suites, assembled, bash, match, linkFails, matchFound, err,
                   rendered, writes, failed, last, prev, calls>>

\* processBashSuites, second loop, one iteration
ByTests ==
    /\ pc = "byTests"
    /\ idx <= Len(suites)
    /\ LET matched == MatchedTests(match, suites[idx].Tests)
       IN  /\ matchFound' = FoundAfterTests(matchFound, matched)
           /\ IF Len(matched) = 0
              THEN /\ idx' = idx + 1
                   /\ UNCHANGED <<suites, rendered, writes, failed, pc, err>>
              ELSE /\ suites' = [suites EXCEPT ![idx].Tests = matched]
                   /\ rendered' = Append(rendered, idx)
                   /\ WriteFile(SuiteBashString(suites', idx))
    /\ UNCHANGED <<assembled, bash, match, linkFails, last, prev, calls>>

\* processBashSuites, lines 147-151
BashReturn ==
    /\ pc = "byTests"
    /\ idx > Len(suites)
    /\ pc' = "done"
    /\ err' = IF ~matchFound THEN [kind |-> "No matches found", suite |-> <<>>]
              ELSE NoError
    /\ UNCHANGED <<suites, assembled, bash, match, linkFails, idx, matchFound,
                   rendered, writes, failed, last, prev, calls>>

Next == RunE \/ GoSuite \/ GoReturn \/ ByName \/ ByNameDone \/ ByTests \/ BashReturn

Spec == Init /\ [][Next]_vars

-----------------------------------------------------------------------------
(* The generator's render methods, called on assembled suites *)

RenderInit ==
    /\ \E n \in 1..MaxSuites : \E parents \in ParentShapes(n) :
       \E t \in 0..MaxTests : \E nRun \in 0..MaxCmds : \E nCleanup \in 0..MaxCmds :
           suites = MkSuites(n, parents, [i \in 1..n |-> t], nRun, nCleanup)
    /\ assembled = suites
    /\ bash = FALSE
    /\ match = <<>>
    /\ linkFails = FALSE
    /\ pc = "api"
    /\ idx = 0
    /\ matchFound = FALSE
    /\ err = NoError
    /\ rendered = <<>>
    /\ writes = <<>>
    /\ failed = <<>>
    /\ last = NoCall
    /\ prev = NoCall
    /\ calls = 0

Called(op, i, j, out) ==
    /\ calls < MaxCalls
    /\ calls' = calls + 1
    /\ prev' = last
    /\ last' = [op |-> op, suite |-> i, test |-> j, out |-> out]
    /\ UNCHANGED <<assembled, runVars>>

\* s.String()
CallSuiteString(i) ==
    /\ Called("Suite.String", i, 0, SuiteString(suites, i))
    /\ suites' = [suites EXCEPT ![i] = SuiteAfterString(@)]

\* s.BashString()
CallSuiteBashString(i) ==
    /\ Called("Suite.BashString", i, 0, SuiteBashString(suites, i))
    /\ suites' = suites

\* s.Tests[j].String()
CallTestString(i, j) ==
    /\ Called("Test.String", i, j, TestString(suites[i].Tests[j]))
    /\ suites' = suites

\* s.Tests[j].BashString()
CallTestBashString(i, j) ==
    /\ Called("Test.BashString", i, j, TestBashString(suites[i].Tests[j]))
    /\ suites' = [suites EXCEPT ![i].Tests[j] = TestAfterBashString(@)]

SuiteStringCalled == \E i \in 1..Len(suites) : CallSuiteString(i)

SuiteBashStringCalled == \E i \in 1..Len(suites) : CallSuiteBashString(i)

TestStringCalled ==
    \E i \in 1..Len(suites) : \E j \in 1..Len(suites[i].Tests) : CallTestString(i, j)

TestBashStringCalled ==
    \E i \in 1..Len(suites) : \E j \in 1..Len(suites[i].Tests) : CallTestBashString(i, j)

RenderNext ==
    SuiteStringCalled \/ SuiteBashStringCalled \/ TestStringCalled \/ TestBashStringCalled

RenderSpec == RenderInit /\ [][RenderNext]_vars

\* Suite.BashString alone, on any suite
FlattenNext == SuiteBashStringCalled

FlattenSpec == RenderInit /\ [][FlattenNext]_vars

-----------------------------------------------------------------------------
(* What the claims speak of, read off the assembled suites *)

SuiteIds == 1..Len(assembled)

NameMatches(i) == MatchString(match, assembled[i].Name)

TestNameMatches(i, j) == MatchString(match, assembled[i].Tests[j].Name)

TestMatches(i) == \E j \in 1..Len(assembled[i].Tests) : TestNameMatches(i, j)

AnyMatch == \E i \in SuiteIds : NameMatches(i) \/ TestMatches(i)

\* processBashSuites was called
ScriptRun == bash /\ match # <<>> /\ ~linkFails /\ Compiles(match) /\ pc # "RunE"

WritesTo(i) == Cardinality({k \in 1..Len(writes) : writes[k].Location = assembled[i].Location})

WrittenSuite(k) == CHOOSE i \in SuiteIds : assembled[i].Location = writes[k].Location

IsTestLine(line) == line # <<>> /\ Head(line) = "test"

\* The names of the test functions of a shell script, in their order
RenderedTestNames(text) ==
    LET lines == SelectSeq(text, IsTestLine)
    IN  [k \in 1..Len(lines) |-> SubSeq(lines[k], 2, Len(lines[k]) - 1)]

TestNames(tests) == [k \in 1..Len(tests) |-> tests[k].Name]

-----------------------------------------------------------------------------
(* C1: in script mode every suite that is written shows all of its         *)
(* declared tests if its name matches the pattern, and otherwise exactly   *)
(* its tests whose names match, in their declared order.                   *)
C1_RenderedWithSelectedTests ==
    ScriptRun =>
        \A k \in 1..Len(writes) :
            LET i == WrittenSuite(k)
            IN  RenderedTestNames(writes[k].data) =
                    IF NameMatches(i) THEN TestNames(assembled[i].Tests)
                    ELSE TestNames(MatchedTests(match, assembled[i].Tests))

(* C2: in script mode with all writes succeeding, a suite's Location is    *)
(* written exactly once if its name or one of its tests' names matches     *)
(* the pattern, and never otherwise; while the run goes on no Location is  *)
(* written twice and none of a suite without a match.                      *)
C2_WrittenOnceIffMatched ==
    ScriptRun =>
        \A i \in SuiteIds :
            /\ WritesTo(i) <= (IF NameMatches(i) \/ TestMatches(i) THEN 1 ELSE 0)
            /\ (pc = "done" /\ failed = <<>>) =>
                   WritesTo(i) = (IF NameMatches(i) \/ TestMatches(i) THEN 1 ELSE 0)

C2_Witness ==
    /\ ScriptRun /\ pc = "done" /\ failed = <<>>
    /\ \E i \in SuiteIds : NameMatches(i) /\ TestMatches(i) /\ WritesTo(i) = 1
    /\ \E i \in SuiteIds : ~NameMatches(i) /\ TestMatches(i) /\ WritesTo(i) = 1
    /\ \E i \in SuiteIds : ~NameMatches(i) /\ ~TestMatches(i) /\ WritesTo(i) = 0

(* C3: in script mode the run ends with the no-matches error exactly when  *)
(* the pattern matches no suite name and no test name, and then nothing    *)
(* was written; a failed write ends it with the save error naming the      *)
(* suite; with a match and no failed write it ends without an error.       *)
C3_NoMatchesError ==
    (ScriptRun /\ pc = "done") =>
        /\ ~AnyMatch => (writes = <<>> /\ failed = <<>> /\ err.kind = "No matches found")
        /\ err.kind = "No matches found" => ~AnyMatch
        /\ failed # <<>> => err = SaveError(assembled[Last(failed)].Name)
        /\ (AnyMatch /\ failed = <<>>) => err = NoError

C3_Witness ==
    /\ ScriptRun /\ pc = "done" /\ ~AnyMatch
    /\ \E i \in SuiteIds : Len(assembled[i].Tests) > 0
    /\ err.kind = "No matches found"

(* C4 as the specification states it: script mode with an empty pattern    *)
(* succeeds and renders every suite.                                       *)
C4_EmptyPatternRendersAll ==
    (bash /\ match = <<>> /\ ~linkFails /\ pc = "done") =>
        (err = NoError /\ \A i \in SuiteIds : WritesTo(i) = 1)

(* C4, amended: script mode with an empty pattern is refused: the run      *)
(* ends with the error that --bash needs --match, and no suite is rendered *)
(* or written.                                                             *)
C4_EmptyPatternRefused ==
    (bash /\ match = <<>>) =>
        /\ rendered = <<>> /\ writes = <<>> /\ failed = <<>>
        /\ pc = "done" => err.kind = "flags"

C4_Witness ==
    bash /\ match = <<>> /\ pc = "done" /\ ~linkFails /\ Len(assembled) > 1

C10_FirstWriteFailureAborts ==
    failed # <<>> =>
        /\ Len(failed) = 1
        /\ pc = "done"
        /\ ~ENABLED Next
        /\ err = SaveError(assembled[failed[1]].Name)
        /\ Last(rendered) = failed[1]
        /\ Len(writes) = Len(rendered) - 1

\* a write of the first loop failed while a suite was left for the second
C10_Witness ==
    /\ ScriptRun /\ failed # <<>> /\ NameMatches(failed[1])
    /\ \E i \in SuiteIds : ~NameMatches(i) /\ TestMatches(i) /\ WritesTo(i) = 0

-----------------------------------------------------------------------------
(* The shell script's two procedures and the chain of a suite's ancestors *)

IsClosing(line) == line = <<"}">>

RECURSIVE UpToClosing(_)
UpToClosing(text) ==
    IF text = <<>> \/ IsClosing(Head(text)) THEN <<>>
    ELSE <<Head(text)>> \o UpToClosing(Tail(text))

RECURSIVE BodyOf(_, _)
\* The lines of the procedure that starts with the line header
BodyOf(text, header) ==
    IF text = <<>> THEN <<>>
    ELSE IF Head(text) = header THEN UpToClosing(Tail(text))
    ELSE BodyOf(Tail(text), header)

SetupOf(text) == BodyOf(text, <<"function setup() {">>)

CleanupOf(text) == BodyOf(text, <<"function cleanup() {">>)

RECURSIVE IsChain(_, _)
\* Suite i and each of its ancestors has at most one parent
IsChain(S, i) ==
    \/ S[i].Parents = <<>>
    \/ Len(S[i].Parents) = 1 /\ IsChain(S, S[i].Parents[1])

RECURSIVE ChainOf(_, _)
\* root, ..., parent, i
ChainOf(S, i) ==
    IF S[i].Parents = <<>> THEN <<i>> ELSE ChainOf(S, S[i].Parents[1]) \o <<i>>

Reverse(s) == [k \in 1..Len(s) |-> s[Len(s) + 1 - k]]

CdLine(i) == <<"cd ", "/", "work", "ex", Letter[i]>>

BashStringOfChain == last.op = "Suite.BashString" /\ IsChain(assembled, last.suite)

(* C5 as the specification states it: the setup of a suite with ancestor   *)
(* chain root, ..., parent is the Run commands of root, ..., parent, then  *)
(* a change into the suite's directory, then the suite's Run commands.     *)
C5_SetupHasOneDirectoryChange ==
    BashStringOfChain =>
        LET chain == ChainOf(assembled, last.suite)
        IN  SetupOf(last.out) =
                Concat([k \in 1..(Len(chain) - 1) |-> Concat(assembled[chain[k]].Run)])
                \o <<CdLine(last.suite)>>
                \o Concat(assembled[last.suite].Run)

(* C5, amended: the setup of a suite with ancestor chain root, ..., parent *)
(* is, for each suite of root, ..., parent, suite in this order, a change  *)
(* into that suite's directory followed by that suite's Run commands in    *)
(* declared order.                                                         *)
C5_SetupChangesDirectoryPerSuite ==
    BashStringOfChain =>
        LET chain == ChainOf(assembled, last.suite)
        IN  SetupOf(last.out) =
                Concat([k \in 1..Len(chain) |->
                           <<CdLine(chain[k])>> \o Concat(assembled[chain[k]].Run)])

\* the setup of a leaf under a root and a mid, each with commands of its own
C5_Witness ==
    /\ BashStringOfChain
    /\ Len(ChainOf(assembled, last.suite)) >= 3
    /\ \A k \in 1..Len(assembled) : Len(assembled[k].Run) >= 2

(* C6 as the specification states it: the cleanup of a suite is the        *)
(* cleanup commands of the suites of its chain in the order of the setup,  *)
(* root first.                                                             *)
C6_CleanupRootFirst ==
    BashStringOfChain =>
        LET chain == ChainOf(assembled, last.suite)
        IN  CleanupOf(last.out) =
                Concat([k \in 1..Len(chain) |-> Concat(assembled[chain[k]].Cleanup)])

(* C6, amended: the cleanup of a suite is the cleanup commands of the      *)
(* suites of its chain in the reverse of the setup's order: the suite's    *)
(* own first, then its parent's, ..., the root's last, each suite's        *)
(* commands once and in declared order.                                    *)
C6_CleanupLeafFirst ==
    BashStringOfChain =>
        LET chain == Reverse(ChainOf(assembled, last.suite))
        IN  CleanupOf(last.out) =
                Concat([k \in 1..Len(chain) |-> Concat(assembled[chain[k]].Cleanup)])

C6_Witness ==
    /\ BashStringOfChain
    /\ Len(ChainOf(assembled, last.suite)) >= 3
    /\ \A k \in 1..Len(assembled) : Len(assembled[k].Cleanup) >= 2

(* C7: a render method called twice in a row on the same suite or test     *)
(* returns the same text both times.                                       *)
C7_RenderTwiceSameText ==
    (last.op # "none" /\ last.op = prev.op /\ last.suite = prev.suite
        /\ last.test = prev.test) => last.out = prev.out

(* C8: after any calls of the render methods every suite's Tests and every *)
(* suite's and test's Run and Cleanup are as they were assembled.          *)
C8_RenderLeavesModelUnchanged ==
    \A i \in 1..Len(suites) :
        /\ suites[i].Tests = assembled[i].Tests
        /\ suites[i].Run = assembled[i].Run
        /\ suites[i].Cleanup = assembled[i].Cleanup

====
